---- MODULE Spec2Model ----
(***************************************************************************)
(* System Cleaner Pro: the cleaning engine (src/engine.rs) and the run     *)
(* orchestration of the front end (src/main.rs, CleanerApp).               *)
(*                                                                         *)
(* One front-end thread (egui update) and one worker thread per run share  *)
(* the log buffer, the completion flag and the filesystem; every run has   *)
(* a SystemCleaner of its own (mode and statistics).                       *)
(*                                                                         *)
(* File names and patterns are sequences of one-character strings, so that *)
(* the matcher is computed as the code computes it. Directory paths are    *)
(* sequences of path components.                                           *)
(***************************************************************************)
EXTENDS Integers, Sequences, FiniteSets, TLC

\* ------------------------------------------------------------- bounds
\* Runs started in one behaviour (each run has its own worker thread).
MaxRuns == 2
\* Check boxes ticked when a run is started.
MaxEnabled == 2
\* Check boxes ticked where runs may overlap.
MaxOverlapEnabled == 1
\* Length of the file names and of the patterns the matcher is called on.
MaxNameLen == 3
MaxPatternLen == 3
\* Base-1024 digits of the byte counts format_bytes is called on.
MaxDigits == 6

\* ------------------------------------------------------- path helpers
IsPrefix(p, s) == Len(p) <= Len(s) /\ SubSeq(s, 1, Len(p)) = p

\* dirs::home_dir()
get_home_dir == <<"home">>

join(base, rel) == base \o rel

\* ---------------------------------------------------- pattern matcher
\* str::starts_with / ends_with / contains on names
starts_with(s, p) == IsPrefix(p, s)

ends_with(s, p) == Len(p) <= Len(s) /\ SubSeq(s, Len(s) - Len(p) + 1, Len(s)) = p

contains(s, p) == \E k \in 0..(Len(s) - Len(p)) : SubSeq(s, k + 1, k + Len(p)) = p

\* `&pattern[1..pattern.len()-1]` panics when the range starts after its end:
\* the pattern "*" both starts and ends with the wildcard, and has length 1.
slice_panics(pattern) ==
    starts_with(pattern, <<"*">>) /\ ends_with(pattern, <<"*">>) /\ 1 > Len(pattern) - 1

\* The `matches` expression of clean_files_by_pattern (where no slice panics).
matches(name, pattern) ==
    IF starts_with(pattern, <<"*">>) /\ ends_with(pattern, <<"*">>)
    THEN contains(name, SubSeq(pattern, 2, Len(pattern) - 1))
    ELSE IF starts_with(pattern, <<"*">>)
    THEN ends_with(name, SubSeq(pattern, 2, Len(pattern)))
    ELSE IF ends_with(pattern, <<"*">>)
    THEN starts_with(name, SubSeq(pattern, 1, Len(pattern) - 1))
    ELSE name = pattern

\* ------------------------------------------------------- format_bytes
\* A byte count (u64) is a sequence of base-1024 digits, most significant
\* first and without leading zeros: << >> is 0, <<1, 512>> is 1536. The
\* conversion to f64 is exact below 2^53, and so is every division by 1024.
UNITS == <<"B", "KB", "MB", "GB", "TB">>

\* The digits of a small number.
RECURSIVE Digits(_)
Digits(n) == IF n = 0 THEN << >> ELSE Append(Digits(n \div 1024), n % 1024)

\* The number a digit sequence stands for.
RECURSIVE Value(_)
Value(d) == IF d = << >> THEN 0 ELSE 1024 * Value(SubSeq(d, 1, Len(d) - 1)) + d[Len(d)]

\* A faulty loop: it stops one unit early, at GB.
RECURSIVE unit_index_to_GB(_, _, _)
unit_index_to_GB(ip, fp, k) ==
    IF Len(ip) >= 2 /\ k < Len(UNITS) - 2
    THEN unit_index_to_GB(SubSeq(ip, 1, Len(ip) - 1), << ip[Len(ip)] >> \o fp, k + 1)
    ELSE [ip |-> ip, fp |-> fp, k |-> k]

\* The while loop: as long as size >= 1024 and a larger unit is left, divide
\* by 1024 (the last digit of the integer part `ip` moves to the front of the
\* fraction `fp`) and take the next unit.
RECURSIVE unit_index(_, _, _)
unit_index(ip, fp, k) ==
    IF Len(ip) >= 2 /\ k < Len(UNITS) - 1
    THEN unit_index(SubSeq(ip, 1, Len(ip) - 1), << ip[Len(ip)] >> \o fp, k + 1)
    ELSE [ip |-> ip, fp |-> fp, k |-> k]

\* A fraction times 100, digit by digit from the last one: the carry out of
\* the first digit is the whole number of hundredths, `rem` what is left.
RECURSIVE Times100(_)
Times100(fp) ==
    IF fp = << >> THEN [carry |-> 0, rem |-> << >>]
    ELSE LET lo == Times100(Tail(fp))
             t  == 100 * Head(fp) + lo.carry
         IN  [carry |-> t \div 1024, rem |-> << t % 1024 >> \o lo.rem]

\* {:.2}: the fraction in hundredths, rounded to nearest, ties to even.
\* 100 stands for a carry into the integer part.
RoundDiv(fp) ==
    LET m    == Times100(fp)
        zero == [i \in 1..(Len(fp) - 1) |-> 0]
        up   == /\ fp # << >>
                /\ \/ m.rem[1] > 512
                   \/ m.rem[1] = 512 /\ Tail(m.rem) # zero
                   \/ m.rem[1] = 512 /\ Tail(m.rem) = zero /\ m.carry % 2 = 1
    IN  IF up THEN m.carry + 1 ELSE m.carry

\* "<whole>.<hundredths> <unit>" as <<whole, hundredths, unit>>
format_bytes(bytes) ==
    LET s == unit_index(bytes, << >>, 0)
        h == RoundDiv(s.fp)
    IN  << Value(s.ip) + h \div 100, h % 100, UNITS[s.k + 1] >>

\* --------------------------------------------------------- filesystem
\* The files a behaviour may hold, in the order a directory walk meets them.
\* A file is [dir, name, size]; the filesystem state is the set of indices
\* of the files present.
Files ==
    << [dir  |-> join(get_home_dir, <<".local", "share", "Trash">>),
        name |-> <<"f", "i", "l", "e", "1">>,
        size |-> 10],
       [dir  |-> join(get_home_dir, <<".var", "app", "org.app">>),
        name |-> <<"a", ".", "s", "w", "p">>,
        size |-> 1536],
       [dir  |-> join(get_home_dir, <<".var", "app", "org.app">>),
        name |-> <<"b", ".", "s", "w", "o">>,
        size |-> 2048],
       [dir  |-> join(get_home_dir, <<".vim">>),
        name |-> <<"s", "e", "s", "s", "i", "o", "n", ".", "s", "w", "p">>,
        size |-> 5] >>

FileIds == 1..Len(Files)

\* The directories that exist when the given files do: the home directory
\* and every ancestor directory of a file.
DirsOf(present) ==
    {get_home_dir} \cup
    UNION {{SubSeq(Files[i].dir, 1, k) : k \in 1..Len(Files[i].dir)} : i \in present}

\* Programs looked up on the search path by which().
Tools == {"xclip", "apt-get", "dnf", "flatpak"}

\* Path::exists
exists(dir, ds) == dir \in ds

\* WalkDir below `dir`, regular files only, in walk order.
FilesUnder(dir, present) ==
    SelectSeq([i \in FileIds |-> i],
              LAMBDA i : i \in present /\ IsPrefix(dir, Files[i].dir))

\* The directories named `name` below `dir` (clean_firefox_cache's walk).
DirsNamed(dir, name, ds) ==
    {d \in ds : IsPrefix(dir, d) /\ Len(d) > 0 /\ d[Len(d)] = name}

\* ------------------------------------------------------ CleaningStats
\* A faulty constructor: the record does not start from zero.
CleaningStats_stale == [files_deleted |-> 1, bytes_freed |-> 0, directories_cleaned |-> 0]

CleaningStats_new == [files_deleted |-> 0, bytes_freed |-> 0, directories_cleaned |-> 0]

\* A faulty add_file: the file is counted as a directory as well.
add_file_and_directory(s, size) ==
    [s EXCEPT !.files_deleted = @ + 1, !.bytes_freed = @ + size,
              !.directories_cleaned = @ + 1]

\* A faulty add_file: the byte total is left behind.
add_file_count_only(s, size) == [s EXCEPT !.files_deleted = @ + 1]

add_file(s, size) ==
    [s EXCEPT !.files_deleted = @ + 1, !.bytes_freed = @ + size]

add_directory(s) == [s EXCEPT !.directories_cleaned = @ + 1]

\* ---------------------------------------------------------- log lines
\* A log line is [text, name, size]: a fixed text, or "Deleted: <name> (<size>)".
Line(text) == [text |-> text, name |-> <<>>, size |-> <<>>]

DeletedLine(name, size) ==
    [text |-> "Deleted: ", name |-> name, size |-> format_bytes(Digits(size))]

\* ----------------------------------------------------- operation steps
\* What an operation does, as a sequence of steps of four kinds.
LogI(text) == [op |-> "log", text |-> text, root |-> <<>>, pattern |-> <<>>, argv |-> <<>>]
DirI(root) == [op |-> "dir", text |-> "", root |-> root, pattern |-> <<>>, argv |-> <<>>]
PatI(root, pattern) == [op |-> "pat", text |-> "", root |-> root, pattern |-> pattern, argv |-> <<>>]
SpawnI(argv) == [op |-> "spawn", text |-> "", root |-> <<>>, pattern |-> <<>>, argv |-> argv]

Home(rel) == join(get_home_dir, rel)

clean_system_cache ==
    << DirI(<<"var", "cache">>), DirI(<<"tmp">>), DirI(<<"var", "tmp">>),
       DirI(Home(<<".cache">>)) >>

clean_trash ==
    << LogI("Emptying Trash..."), DirI(Home(<<".local", "share", "Trash">>)) >>

clean_logs ==
    << LogI("Cleaning System Logs..."), DirI(<<"var", "log">>),
       PatI(Home(<<".local", "share">>), <<"*", ".", "l", "o", "g">>),
       PatI(Home(<<".config">>), <<"*", ".", "l", "o", "g">>) >>

clean_thumbnails ==
    << LogI("Cleaning Thumbnails..."),
       DirI(Home(<<".thumbnails">>)),
       DirI(Home(<<".cache", "thumbnails">>)),
       DirI(Home(<<".local", "share", "thumbnails">>)) >>

clean_clipboard(dry, tl) ==
    IF "xclip" \in tl /\ ~dry
    THEN << LogI("Clearing Clipboard..."),
            SpawnI(<<"xclip", "-selection", "clipboard", "/dev/null">>) >>
    ELSE << >>

clean_recent_docs ==
    << PatI(Home(<<".local", "share">>),
            <<"r", "e", "c", "e", "n", "t", "l", "y", "-", "u", "s", "e", "d",
              ".", "x", "b", "e", "l">>) >>

\* The walk over ~/.local/share/applications acts on nothing.
clean_broken_desktop_files == << LogI("Scanning broken shortcuts...") >>

clean_python_cache ==
    << LogI("Cleaning Python Cache..."),
       PatI(get_home_dir, <<"*", ".", "p", "y", "c">>),
       PatI(get_home_dir, <<"_", "_", "p", "y", "c", "a", "c", "h", "e", "_", "_">>) >>

clean_vim ==
    << LogI("Cleaning Vim Swap files..."),
       PatI(get_home_dir, <<"*", ".", "s", "w", "p">>),
       PatI(get_home_dir, <<"*", ".", "s", "w", "o">>),
       PatI(Home(<<".vim">>), <<"*", ".", "s", "w", "p">>) >>

clean_backup_files ==
    << LogI("Cleaning Backup files..."),
       PatI(get_home_dir, <<"*", "~">>),
       PatI(get_home_dir, <<"*", ".", "b", "a", "k">>) >>

clean_apt(dry, tl) ==
    IF "apt-get" \in tl
    THEN << LogI("Running APT cleanup...") >> \o
         (IF ~dry
          THEN << SpawnI(<<"apt-get", "autoremove", "-y">>),
                  SpawnI(<<"apt-get", "clean">>) >>
          ELSE << >>)
    ELSE << >>

clean_dnf(dry, tl) ==
    IF "dnf" \in tl
    THEN << LogI("Running DNF cleanup...") >> \o
         (IF ~dry
          THEN << SpawnI(<<"dnf", "autoremove", "-y">>),
                  SpawnI(<<"dnf", "clean", "all">>) >>
          ELSE << >>)
    ELSE << >>

\* A faulty flatpak operation: ~/.var/app is purged without the tool.
clean_flatpak_unchecked(dry, tl) ==
    IF "flatpak" \in tl
    THEN << LogI("Cleaning Flatpak cache...") >> \o
         (IF ~dry
          THEN << SpawnI(<<"flatpak", "uninstall", "--unused", "-y">>) >>
          ELSE << >>) \o
         << DirI(Home(<<".var", "app">>)) >>
    ELSE << DirI(Home(<<".var", "app">>)) >>

clean_flatpak(dry, tl) ==
    IF "flatpak" \in tl
    THEN << LogI("Cleaning Flatpak cache...") >> \o
         (IF ~dry
          THEN << SpawnI(<<"flatpak", "uninstall", "--unused", "-y">>) >>
          ELSE << >>) \o
         << DirI(Home(<<".var", "app">>)) >>
    ELSE << >>

\* One purge per directory named cache2 below the profile root.
RECURSIVE PurgeEach(_)
PurgeEach(ds) ==
    IF ds = {} THEN << >>
    ELSE LET d == CHOOSE x \in ds : TRUE
         IN  << DirI(d) >> \o PurgeEach(ds \ {d})

clean_firefox_cache(ds) ==
    << LogI("Cleaning Firefox Cache...") >> \o
    (IF exists(Home(<<".mozilla", "firefox">>), ds)
     THEN PurgeEach(DirsNamed(Home(<<".mozilla", "firefox">>), "cache2", ds))
     ELSE << >>)

clean_chrome_cache ==
    << LogI("Cleaning Chrome Cache..."),
       DirI(Home(<<".config", "google-chrome", "Default", "Cache">>)) >>

clean_brave_cache ==
    << LogI("Cleaning Brave Cache..."),
       DirI(Home(<<".config", "BraveSoftware", "Brave-Browser", "Default", "Cache">>)) >>

\* ------------------------------------------------------------ catalog
\* init_categories: every item id, in declaration order.
CatalogIds ==
    << "tmp", "trash", "logs", "var_cache", "thumbnails", "clipboard",
       "broken_desktop", "chrome_cache", "firefox_cache", "brave_cache",
       "pycache", "vim", "backup_files", "recent_docs", "apt", "dnf", "flatpak" >>

CatalogSet == {CatalogIds[i] : i \in 1..Len(CatalogIds)}

\* The arms of `match item.as_str()` that name an operation.
KnownIds ==
    { "tmp", "var_cache", "trash", "logs", "thumbnails", "clipboard",
      "recent_docs", "broken_desktop", "chrome_cache", "firefox_cache",
      "brave_cache", "pycache", "vim", "backup_files", "apt", "dnf", "flatpak" }

CatalogProgram(item, dry, tl, ds) ==
    CASE item \in {"tmp", "var_cache"} -> clean_system_cache
      [] item = "trash"          -> clean_trash
      [] item = "logs"           -> clean_logs
      [] item = "thumbnails"     -> clean_thumbnails
      [] item = "clipboard"      -> clean_clipboard(dry, tl)
      [] item = "recent_docs"    -> clean_recent_docs
      [] item = "broken_desktop" -> clean_broken_desktop_files
      [] item = "chrome_cache"   -> clean_chrome_cache
      [] item = "firefox_cache"  -> clean_firefox_cache(ds)
      [] item = "brave_cache"    -> clean_brave_cache
      [] item = "pycache"        -> clean_python_cache
      [] item = "vim"            -> clean_vim
      [] item = "backup_files"   -> clean_backup_files
      [] item = "apt"            -> clean_apt(dry, tl)
      [] item = "dnf"            -> clean_dnf(dry, tl)
      [] item = "flatpak"        -> clean_flatpak(dry, tl)

\* A faulty match: the default arm reports the id.
match_item_reporting(item, dry, tl, ds) ==
    IF item \in KnownIds THEN CatalogProgram(item, dry, tl, ds)
    ELSE << LogI("Error: unknown item") >>

\* match item.as_str() { ... _ => {} }
match_item(item, dry, tl, ds) ==
    IF item \in KnownIds THEN CatalogProgram(item, dry, tl, ds) ELSE << >>

\* A faulty capture: the ids come out last to first.
selected_items_reversed(en) ==
    LET sel == SelectSeq(CatalogIds, LAMBDA id : id \in en)
    IN  [i \in 1..Len(sel) |-> sel[Len(sel) + 1 - i]]

\* categories -> items -> filter(enabled) -> id, in declaration order.
selected_items(en) == SelectSeq(CatalogIds, LAMBDA id : id \in en)

\* The check boxes a behaviour's user may have ticked: one operation of each
\* kind (directory purge, pattern purge, mode-gated tool, tool plus purge).
\* The two-step tools, apt and dnf, are run by the dispatch loop on its own.
Tickable == {"trash", "vim", "clipboard", "flatpak"}

\* ---------------------------------------------------------- the state
VARIABLES
    fs,            \* files present (indices into Files)
    dirs,          \* directories present
    tools,         \* programs on the search path
    spawned,       \* argument vectors of the processes spawned so far
    enabled,       \* CleanItem.enabled: the ids ticked
    is_processing, \* CleanerApp.is_processing
    done_signal,   \* CleanerApp.done_signal (AtomicBool)
    logs,          \* CleanerApp.logs (Arc<Mutex<Vec<String>>>)
    cleaner,       \* CleanerApp.cleaner: 0 is None, r the cleaner of run r
    status_text,   \* CleanerApp.status_text
    dry_run,       \* SystemCleaner.dry_run, per run
    stats,         \* SystemCleaner.stats, per run
    worker,        \* the worker thread of each run
    snapshot,      \* the front end's last copy of the statistics
    trace,         \* history: what each worker has done so far
    start,         \* history: the filesystem each run started on
    call,          \* a call of the matcher or of format_bytes on its own
    ret,           \* what that call returned
    held,          \* the thread holding each mutex
    pc             \* each thread's position among its lock operations

vars == << fs, dirs, tools, spawned, enabled, is_processing, done_signal, logs,
           cleaner, status_text, dry_run, stats, worker, snapshot, trace, start,
           call, ret, held, pc >>

\* The call under evaluation, untouched by the front end and the workers.
pure == << call, ret >>

\* The mutexes seen one lock operation at a time; the whole-handler actions
\* below take and release them within one step and leave this untouched.
sync == << held, pc >>

Runs == 1..MaxRuns

\* A worker before thread::spawn.
Unborn ==
    [ at     |-> "unborn",  \* unborn | idle | dir_loop | pat_loop | log_deleted | add_file | done
      items  |-> << >>,     \* selected_items
      op     |-> 0,         \* how many items have been dispatched
      prog   |-> << >>,     \* the steps left of the operation dispatched last
      todo   |-> << >>,     \* files_to_delete
      cursor |-> 0,         \* the walk's position in a pattern purge
      cur    |-> 0,         \* the file just removed
      size   |-> 0,         \* its size
      ret    |-> "idle" ]   \* the loop to go back to after add_file

Running(r) == worker[r].at \notin {"unborn", "done"}

NoSnapshot == [run |-> 0, files_deleted |-> 0, bytes_freed |-> 0, directories_cleaned |-> 0]

\* History records: one event of a worker, and a run's starting point.
Event(w, kind, line, size) ==
    [op |-> w.op, kind |-> kind, line |-> line, size |-> size, argv |-> << >>, status |-> ""]

\* A process invocation: its argument vector and how it went.
Invoked(w, argv, status) ==
    [Event(w, "spawn", Line(""), 0) EXCEPT !.argv = argv, !.status = status]

\* `aborted` is the file count the run had reached when Abort was pressed
\* (-1: it was not).
NoStart == [fs |-> {}, dirs |-> {}, spawned |-> 0, alone |-> TRUE, aborted |-> -1]

\* Threads: 0 is the front end (the egui update loop), r the worker of run r.
FrontEnd == 0

Threads == {FrontEnd} \cup Runs

\* No thread holds the mutex.
Free == -1

\* The mutexes: the log buffer shared by all runs, and for each run the
\* callback and the statistics of its SystemCleaner.
LogsLock == << "logs", 0 >>

CallbackLock(r) == << "callback", r >>

StatsLock(r) == << "stats", r >>

Locks == {LogsLock} \cup {CallbackLock(r) : r \in Runs} \cup {StatsLock(r) : r \in Runs}

\* No mutex is held, the front end is between two frames, no worker exists.
Unlocked ==
    /\ held = [l \in Locks |-> Free]
    /\ pc = [t \in Threads |-> IF t = FrontEnd THEN "frame" ELSE "unborn"]

TypeOK ==
    /\ fs \subseteq FileIds
    /\ tools \subseteq Tools
    /\ enabled \subseteq CatalogSet
    /\ is_processing \in BOOLEAN
    /\ done_signal \in BOOLEAN
    /\ cleaner \in 0..MaxRuns
    /\ \A r \in Runs : dry_run[r] \in BOOLEAN

\* The programs the operations of the ticked ids look up with which().
LookedUp(en) ==
    {t \in Tools : \/ t = "xclip" /\ "clipboard" \in en
                   \/ t = "apt-get" /\ "apt" \in en
                   \/ t = "dnf" /\ "dnf" \in en
                   \/ t = "flatpak" /\ "flatpak" \in en}

\* The state after CleanerApp::default(), the user having ticked one of the
\* given sets of boxes, on one of the given filesystems and any search path
\* (of the programs no ticked operation looks up, none is listed: their
\* presence changes nothing).
Default(ticked, filesystems) ==
    /\ fs \in filesystems
    /\ dirs = DirsOf(fs)
    /\ enabled \in ticked
    /\ tools \in SUBSET LookedUp(enabled)
    /\ spawned = << >>
    /\ is_processing = FALSE
    /\ done_signal = FALSE
    /\ logs = << >>
    /\ cleaner = 0
    /\ status_text = "Ready to clean."
    /\ dry_run = [r \in Runs |-> FALSE]
    /\ stats = [r \in Runs |-> CleaningStats_new]
    /\ worker = [r \in Runs |-> Unborn]
    /\ snapshot = NoSnapshot
    /\ trace = [r \in Runs |-> << >>]
    /\ start = [r \in Runs |-> NoStart]
    /\ Unlocked

Ticked(n) == {S \in SUBSET Tickable : Cardinality(S) <= n}

\* No call of a function on its own is going on.
NoCall == [fn |-> "none", name |-> << >>, pattern |-> << >>, bytes |-> << >>]

NoRet == [done |-> FALSE, panicked |-> FALSE, matched |-> FALSE, text |-> << >>]

NoPureCall == call = NoCall /\ ret = NoRet

Set(r, w) == worker' = [worker EXCEPT ![r] = w]

Record(r, e) == trace' = [trace EXCEPT ![r] = Append(@, e)]

\* ------------------------------------------------------ the front end
\* CleanerApp::run_process, called by the Preview (is_preview) and Clean
\* buttons. Nothing guards it against a run that is still going.
run_process(is_preview) ==
    /\ cleaner < MaxRuns
    /\ LET r == cleaner + 1 IN
        /\ is_processing' = TRUE
        /\ logs' = << >>
        /\ done_signal' = FALSE
        /\ status_text' = IF is_preview THEN "Previewing..." ELSE "Cleaning..."
        /\ dry_run' = [dry_run EXCEPT ![r] = is_preview]
        /\ stats' = [stats EXCEPT ![r] = CleaningStats_new]
        /\ cleaner' = r
        /\ worker' = [worker EXCEPT ![r] =
                        [Unborn EXCEPT !.at = "idle", !.items = selected_items(enabled)]]
        /\ start' = [start EXCEPT ![r] =
                        [fs |-> fs, dirs |-> dirs, spawned |-> Len(spawned),
                         alone |-> \A q \in Runs : ~Running(q), aborted |-> -1]]
    /\ UNCHANGED << pure, sync, fs, dirs, tools, spawned, enabled, snapshot, trace >>

Preview == run_process(TRUE)

Clean == run_process(FALSE)

\* A faulty Abort: the worker of the current run is stopped where it is.
Abort_cancelling ==
    /\ is_processing
    /\ is_processing' = FALSE
    /\ status_text' = "Aborted by user."
    /\ start' = [start EXCEPT ![cleaner].aborted = stats[cleaner].files_deleted]
    /\ worker' = [worker EXCEPT ![cleaner].at = "cancelled"]
    /\ UNCHANGED << pure, sync, fs, dirs, tools, spawned, enabled, done_signal, logs, cleaner,
                    dry_run, stats, snapshot, trace >>

\* The Abort button, shown while is_processing.
Abort ==
    /\ is_processing
    /\ is_processing' = FALSE
    /\ status_text' = "Aborted by user."
    /\ start' = [start EXCEPT ![cleaner].aborted = stats[cleaner].files_deleted]
    /\ UNCHANGED << pure, sync, fs, dirs, tools, spawned, enabled, done_signal, logs, cleaner,
                    dry_run, stats, worker, snapshot, trace >>

\* update: the completion poll of the status bar.
PollDone ==
    /\ is_processing /\ done_signal
    /\ is_processing' = FALSE
    /\ status_text' = "Operation Completed."
    /\ UNCHANGED << pure, sync, fs, dirs, tools, spawned, enabled, done_signal, logs, cleaner,
                    dry_run, stats, worker, snapshot, trace, start >>

\* SystemCleaner::get_stats_sync, called by update on the current cleaner:
\* a copy of the whole record, taken under the statistics lock.
clone(st, r) ==
    [ run                 |-> r,
      files_deleted       |-> st[r].files_deleted,
      bytes_freed         |-> st[r].bytes_freed,
      directories_cleaned |-> st[r].directories_cleaned ]

get_stats_sync(r) == clone(stats, r)

\* A faulty read: the front end waits for the worker to end.
SnapshotStats_waiting ==
    /\ cleaner # 0
    /\ ~Running(cleaner)
    /\ snapshot' = get_stats_sync(cleaner)
    /\ snapshot' # snapshot
    /\ UNCHANGED << pure, sync, fs, dirs, tools, spawned, enabled, is_processing, done_signal,
                    logs, cleaner, status_text, dry_run, stats, worker, trace, start >>

SnapshotStats ==
    /\ cleaner # 0
    /\ snapshot' = get_stats_sync(cleaner)
    /\ snapshot' # snapshot
    /\ UNCHANGED << pure, sync, fs, dirs, tools, spawned, enabled, is_processing, done_signal,
                    logs, cleaner, status_text, dry_run, stats, worker, trace, start >>

\* -------------------------------------------------------- the workers
\* A faulty removal: the mode is not looked at.
try_remove_any_mode(dry, f, present) ==
    IF f \in present
    THEN { [ok |-> TRUE, fs |-> present \ {f}], [ok |-> FALSE, fs |-> present] }
    ELSE { [ok |-> FALSE, fs |-> present] }

\* A faulty removal: success is reported and the file stays.
try_remove_keeps_file(dry, f, present) == { [ok |-> TRUE, fs |-> present] }

\* `if !self.dry_run { fs::remove_file(path).is_ok() } else { true }`: the
\* outcomes of one removal, each with the filesystem it leaves. Removing a
\* file that is present may fail (permissions, I/O); a file that is gone
\* cannot be removed.
try_remove(dry, f, present) ==
    IF ~dry
    THEN IF f \in present
         THEN { [ok |-> TRUE, fs |-> present \ {f}], [ok |-> FALSE, fs |-> present] }
         ELSE { [ok |-> FALSE, fs |-> present] }
    ELSE { [ok |-> TRUE, fs |-> present] }

\* A faulty removal: a directory left without files goes as well.
dirs_after_remove_pruning(ds, present) == ds \cap DirsOf(present)

\* fs::remove_file unlinks one file: the directories are those there were,
\* also the ones left empty.
dirs_after_remove(ds, present) == ds

\* A faulty branch: a failed removal is reported like a successful one.
after_remove_always(ok, loop) == "log_deleted"

\* A faulty branch: a failed removal ends the worker.
after_remove_fatal(ok, loop) == IF ok THEN "log_deleted" ELSE "failed"

\* `if success { log; add_file }`: where the worker goes after a removal
\* made inside `loop`.
after_remove(ok, loop) == IF ok THEN "log_deleted" ELSE loop

\* SystemCleaner::log with the callback of run_process: push under the locks.
log(buffer, line) == Append(buffer, line)

\* The dispatch loop takes the next item; the match runs its operation. The
\* tool lookups of the operation (which) happen here, at its start.
Dispatch(r) ==
    LET w == worker[r] IN
    /\ w.at = "idle" /\ w.prog = << >> /\ w.op < Len(w.items)
    /\ Set(r, [w EXCEPT !.op = @ + 1,
                        !.prog = match_item(w.items[w.op + 1], dry_run[r], tools, dirs)])
    /\ UNCHANGED << pure, sync, fs, dirs, tools, spawned, enabled, is_processing, done_signal,
                    logs, cleaner, status_text, dry_run, stats, snapshot, trace, start >>

\* After the loop: done_signal.store(true).
Finish(r) ==
    LET w == worker[r] IN
    /\ w.at = "idle" /\ w.prog = << >> /\ w.op = Len(w.items)
    /\ Set(r, [w EXCEPT !.at = "done"])
    /\ done_signal' = TRUE
    /\ UNCHANGED << pure, sync, fs, dirs, tools, spawned, enabled, is_processing, logs, cleaner,
                    status_text, dry_run, stats, snapshot, trace, start >>

\* self.log(<fixed text>)
LogLine(r) ==
    LET w == worker[r] IN
    /\ w.at = "idle" /\ w.prog # << >> /\ Head(w.prog).op = "log"
    /\ logs' = log(logs, Line(Head(w.prog).text))
    /\ Record(r, Event(w, "log", Line(Head(w.prog).text), 0))
    /\ Set(r, [w EXCEPT !.prog = Tail(@)])
    /\ UNCHANGED << pure, sync, fs, dirs, tools, spawned, enabled, is_processing, done_signal,
                    cleaner, status_text, dry_run, stats, snapshot, start >>

\* A faulty invocation: a failure ends the operation (the steps left of it
\* are dropped).
Spawn_propagating(r) ==
    LET w == worker[r] IN
    /\ w.at = "idle" /\ w.prog # << >> /\ Head(w.prog).op = "spawn"
    /\ spawned' = Append(spawned, Head(w.prog).argv)
    /\ \E status \in {"exit_zero", "exit_nonzero", "spawn_failed"} :
        /\ Record(r, Invoked(w, Head(w.prog).argv, status))
        /\ Set(r, [w EXCEPT !.prog = IF status = "exit_zero" THEN Tail(@) ELSE << >>])
    /\ UNCHANGED << pure, sync, fs, dirs, tools, enabled, is_processing, done_signal, logs,
                    cleaner, status_text, dry_run, stats, snapshot, start >>

\* How .output() can return: Ok with exit status zero or non-zero, or Err
\* (the program could not be started).
Outcomes == {"exit_zero", "exit_nonzero", "spawn_failed"}

\* `let _ = ProcessCommand::new(..).args(..).output();`: the call returns
\* when the process has ended, and its result is dropped.
Spawn(r) ==
    LET w == worker[r] IN
    /\ w.at = "idle" /\ w.prog # << >> /\ Head(w.prog).op = "spawn"
    /\ spawned' = Append(spawned, Head(w.prog).argv)
    /\ \E status \in Outcomes : Record(r, Invoked(w, Head(w.prog).argv, status))
    /\ Set(r, [w EXCEPT !.prog = Tail(@)])
    /\ UNCHANGED << pure, sync, fs, dirs, tools, enabled, is_processing, done_signal, logs,
                    cleaner, status_text, dry_run, stats, snapshot, start >>

\* clean_directory_contents, first half: return if the directory is
\* missing, else collect the files below it.
DirCollect(r) ==
    LET w == worker[r]
        i == Head(w.prog) IN
    /\ w.at = "idle" /\ w.prog # << >> /\ i.op = "dir"
    /\ IF ~exists(i.root, dirs)
       THEN Set(r, [w EXCEPT !.prog = Tail(@)])
       ELSE Set(r, [w EXCEPT !.at = "dir_loop", !.todo = FilesUnder(i.root, fs)])
    /\ UNCHANGED << pure, sync, fs, dirs, tools, spawned, enabled, is_processing, done_signal,
                    logs, cleaner, status_text, dry_run, stats, snapshot, trace, start >>

\* clean_directory_contents, the delete loop: one removal, or the return.
DirRemove(r) ==
    LET w == worker[r] IN
    /\ w.at = "dir_loop"
    /\ IF w.todo = << >>
       THEN /\ Set(r, [w EXCEPT !.at = "idle", !.prog = Tail(@)])
            /\ UNCHANGED << fs, dirs, trace >>
       ELSE LET f == Head(w.todo) IN
            \E out \in try_remove(dry_run[r], f, fs) :
                /\ fs' = out.fs
                /\ dirs' = dirs_after_remove(dirs, out.fs)
                /\ Set(r, [w EXCEPT !.at = after_remove(out.ok, "dir_loop"),
                                    !.todo = Tail(@), !.cur = f,
                                    !.size = Files[f].size, !.ret = "dir_loop"])
                /\ IF out.ok THEN UNCHANGED trace
                   ELSE Record(r, Event(w, "failed", Line(""), 0))
    /\ UNCHANGED << pure, sync, tools, spawned, enabled, is_processing, done_signal, logs,
                    cleaner, status_text, dry_run, stats, snapshot, start >>

\* clean_files_by_pattern: return if the directory is missing, else start
\* the walk.
PatOpen(r) ==
    LET w == worker[r]
        i == Head(w.prog) IN
    /\ w.at = "idle" /\ w.prog # << >> /\ i.op = "pat"
    /\ IF ~exists(i.root, dirs)
       THEN Set(r, [w EXCEPT !.prog = Tail(@)])
       ELSE Set(r, [w EXCEPT !.at = "pat_loop", !.cursor = 0])
    /\ UNCHANGED << pure, sync, fs, dirs, tools, spawned, enabled, is_processing, done_signal,
                    logs, cleaner, status_text, dry_run, stats, snapshot, trace, start >>

\* The files the walk has still to meet that match the pattern.
Matching(root, pattern, cursor, present) ==
    {f \in present : f > cursor /\ IsPrefix(root, Files[f].dir)
                               /\ matches(Files[f].name, pattern)}

\* clean_files_by_pattern, the walk: on to the next matching file and one
\* removal, or the return at the end of the walk.
PatRemove(r) ==
    LET w == worker[r]
        i == Head(w.prog)
        m == Matching(i.root, i.pattern, w.cursor, fs) IN
    /\ w.at = "pat_loop"
    /\ IF m = {}
       THEN /\ Set(r, [w EXCEPT !.at = "idle", !.prog = Tail(@)])
            /\ UNCHANGED << fs, dirs, trace >>
       ELSE LET f == CHOOSE x \in m : \A y \in m : x <= y IN
            \E out \in try_remove(dry_run[r], f, fs) :
                /\ fs' = out.fs
                /\ dirs' = dirs_after_remove(dirs, out.fs)
                /\ Set(r, [w EXCEPT !.at = after_remove(out.ok, "pat_loop"),
                                    !.cursor = f, !.cur = f,
                                    !.size = Files[f].size, !.ret = "pat_loop"])
                /\ IF out.ok THEN UNCHANGED trace
                   ELSE Record(r, Event(w, "failed", Line(""), 0))
    /\ UNCHANGED << pure, sync, tools, spawned, enabled, is_processing, done_signal, logs,
                    cleaner, status_text, dry_run, stats, snapshot, start >>

\* self.log("Deleted: <name> (<size>)")
LogDeleted(r) ==
    LET w == worker[r]
        line == DeletedLine(Files[w.cur].name, w.size) IN
    /\ w.at = "log_deleted"
    /\ logs' = log(logs, line)
    /\ Record(r, Event(w, "log", line, 0))
    /\ Set(r, [w EXCEPT !.at = "add_file"])
    /\ UNCHANGED << pure, sync, fs, dirs, tools, spawned, enabled, is_processing, done_signal,
                    cleaner, status_text, dry_run, stats, snapshot, start >>

\* `if let Ok(mut stats) = self.stats.lock() { stats.add_file(size); }`
AddFile(r) ==
    LET w == worker[r] IN
    /\ w.at = "add_file"
    /\ stats' = [stats EXCEPT ![r] = add_file(@, w.size)]
    /\ Record(r, Event(w, "stat", Line(""), w.size))
    /\ Set(r, [w EXCEPT !.at = w.ret])
    /\ UNCHANGED << pure, sync, fs, dirs, tools, spawned, enabled, is_processing, done_signal,
                    logs, cleaner, status_text, dry_run, snapshot, start >>

WorkerStep(r) ==
    \/ Dispatch(r)
    \/ Finish(r)
    \/ LogLine(r)
    \/ Spawn(r)
    \/ DirCollect(r)
    \/ DirRemove(r)
    \/ PatOpen(r)
    \/ PatRemove(r)
    \/ LogDeleted(r)
    \/ AddFile(r)

\* No worker thread is running.
Idle == \A q \in Runs : ~Running(q)

\* The program: either button may be pressed at any time. The filesystem
\* starts with Trash/file1 and .vim/session.swp.
Init == Default(Ticked(MaxOverlapEnabled), {{1, 4}}) /\ NoPureCall

Next ==
    \/ Preview
    \/ Clean
    \/ Abort
    \/ PollDone
    \/ SnapshotStats
    \/ \E r \in Runs : WorkerStep(r)

Spec == Init /\ [][Next]_vars

\* The program with a user who presses a button only once the worker of
\* the previous run has ended: runs follow each other, on more operations.
InitSeq == Default(Ticked(MaxEnabled), SUBSET FileIds) /\ NoPureCall

PreviewIdle == Idle /\ Preview

CleanIdle == Idle /\ Clean

NextSeq ==
    \/ PreviewIdle
    \/ CleanIdle
    \/ SnapshotStats
    \/ \E r \in Runs : WorkerStep(r)

SpecSeq == InitSeq /\ [][NextSeq]_vars

\* The orchestrator alone, just after a run was started on any list of ids,
\* ids of no operation among them (the check boxes never produce those).
UnknownId == "no_such_id"

ItemLists ==
    UNION {[1..n -> Tickable \cup {"apt", "dnf", "pycache", "firefox_cache", UnknownId}] :
            n \in 0..MaxEnabled}

\* Directories without files: a __pycache__ directory and the cache2
\* directory of a Firefox profile.
EmptyDirs ==
    { Home(<<"proj">>), Home(<<"proj", "__pycache__">>),
      Home(<<".mozilla">>), Home(<<".mozilla", "firefox">>),
      Home(<<".mozilla", "firefox", "p.default">>),
      Home(<<".mozilla", "firefox", "p.default", "cache2">>) }

Range(q) == {q[i] : i \in 1..Len(q)}

InitDispatch ==
    /\ fs \in SUBSET FileIds
    /\ dirs = DirsOf(fs) \cup EmptyDirs
    /\ \E items \in ItemLists, mode \in BOOLEAN :
        /\ worker = [r \in Runs |->
                        IF r = 1 THEN [Unborn EXCEPT !.at = "idle", !.items = items]
                        ELSE Unborn]
        /\ dry_run = [r \in Runs |-> r = 1 /\ mode]
        /\ enabled = Range(items) \cap CatalogSet
        /\ status_text = IF mode THEN "Previewing..." ELSE "Cleaning..."
    /\ tools \in SUBSET LookedUp(enabled)
    /\ spawned = << >>
    /\ is_processing = TRUE
    /\ done_signal = FALSE
    /\ logs = << >>
    /\ cleaner = 1
    /\ stats = [r \in Runs |-> CleaningStats_new]
    /\ snapshot = NoSnapshot
    /\ trace = [r \in Runs |-> << >>]
    /\ start = [r \in Runs |->
                    IF r = 1 THEN [fs |-> fs, dirs |-> dirs, spawned |-> 0, alone |-> TRUE,
                                   aborted |-> -1]
                    ELSE NoStart]
    /\ Unlocked
    /\ NoPureCall

NextDispatch == \E r \in Runs : WorkerStep(r)

SpecDispatch == InitDispatch /\ [][NextDispatch]_vars

\* The program with threads that are scheduled: a worker that can take a
\* step takes one (every filesystem call and every process returns). The
\* statistics panel, which only reads, is left out.
NextFair ==
    \/ Preview
    \/ Clean
    \/ Abort
    \/ PollDone
    \/ \E r \in Runs : WorkerStep(r)

SpecFair == Init /\ [][NextFair]_vars /\ \A r \in Runs : WF_vars(WorkerStep(r))

\* The matcher and format_bytes on their own: one call, on any pattern and
\* file name, or on any byte count, of the sets below.
Seqs(S, lo, hi) == UNION {[1..n -> S] : n \in lo..hi}

Names ==
    Seqs({"a", "."}, 1, MaxNameLen)
        \cup { <<"a", ".", "l", "o", "g">>, <<"a", ".", "l", "o", "g", "x">>,
               <<".", "l", "o", "g">> }

\* Patterns with the wildcard nowhere but first and last.
Patterns ==
    {q \in Seqs({"a", ".", "*"}, 0, MaxPatternLen) :
        \A i \in 2..(Len(q) - 1) : q[i] # "*"}
        \cup { <<"*", ".", "l", "o", "g">>, <<"*", "l", "o", "g", "*">>,
               <<"a", ".", "l", "*">>, <<"a", ".", "l", "o", "g">> }

\* Byte counts below 2^53, as digits.
ByteCounts ==
    {d \in Seqs({0, 1, 512, 1023}, 0, MaxDigits) :
        /\ d # << >> => d[1] # 0
        /\ Len(d) <= 5 \/ (Len(d) = 6 /\ d[1] < 8)}
        \cup { Digits(15), Digits(1029), Digits(1039), Digits(1040), <<1023, 1020>> }

Calls ==
    {[NoCall EXCEPT !.fn = "matches", !.name = n, !.pattern = q] :
        n \in Names, q \in Patterns}
        \cup {[NoCall EXCEPT !.fn = "format_bytes", !.bytes = d] : d \in ByteCounts}

InitPure ==
    /\ Default({{}}, {{}})
    /\ call \in Calls
    /\ ret = NoRet

program == << fs, dirs, tools, spawned, enabled, is_processing, done_signal, logs,
              cleaner, status_text, dry_run, stats, worker, snapshot, trace, start >>

\* One evaluation of the `matches` expression.
CallMatches ==
    /\ call.fn = "matches" /\ ~ret.done
    /\ ret' = IF slice_panics(call.pattern)
              THEN [NoRet EXCEPT !.done = TRUE, !.panicked = TRUE]
              ELSE [NoRet EXCEPT !.done = TRUE,
                                 !.matched = matches(call.name, call.pattern)]
    /\ UNCHANGED << call, sync, program >>

\* One call of SystemCleaner::format_bytes.
CallFormatBytes ==
    /\ call.fn = "format_bytes" /\ ~ret.done
    /\ ret' = [NoRet EXCEPT !.done = TRUE, !.text = format_bytes(call.bytes)]
    /\ UNCHANGED << call, sync, program >>

NextPure == CallMatches \/ CallFormatBytes

SpecPure == InitPure /\ [][NextPure]_vars

\* ------------------------------------------------------ the mutexes
\* The front end and the workers seen one lock operation at a time. What is
\* read and written under the locks is that of the actions above and plays
\* no part in who waits for whom: only the latest cleaner is kept here.

\* Mutex::lock returns: thread t holds l.
lock(h, l, t) == [h EXCEPT ![l] = t]

\* A faulty guard: the mutex stays locked when the guard goes out of scope.
unlock_leaking(h, l) == h

\* The MutexGuard goes out of scope.
unlock(h, l) == [h EXCEPT ![l] = Free]

At(t, where) == pc[t] = where

Goto(t, where) == pc' = [pc EXCEPT ![t] = where]

\* Everything but the mutexes, the positions and the latest cleaner.
data == << fs, dirs, tools, spawned, enabled, is_processing, done_signal, logs,
           status_text, dry_run, stats, worker, snapshot, trace, start >>

\* A frame in which Preview or Clean is clicked: run_process begins.
ClickRun ==
    /\ At(FrontEnd, "frame") /\ cleaner < MaxRuns
    /\ Goto(FrontEnd, "clear_wait")
    /\ UNCHANGED << pure, data, cleaner, held >>

\* A frame without a click: on to the statistics panel if there is a
\* cleaner, else to the log panel.
NoClick ==
    /\ At(FrontEnd, "frame")
    /\ Goto(FrontEnd, IF cleaner # 0 THEN "stats_wait" ELSE "read_wait")
    /\ UNCHANGED << pure, data, cleaner, held >>

\* self.logs.lock().unwrap() of run_process
ClearAcquire ==
    /\ At(FrontEnd, "clear_wait") /\ held[LogsLock] = Free
    /\ held' = lock(held, LogsLock, FrontEnd)
    /\ Goto(FrontEnd, "clearing")
    /\ UNCHANGED << pure, data, cleaner >>

\* .clear(); the guard is a temporary of the statement.
ClearRelease ==
    /\ At(FrontEnd, "clearing")
    /\ held' = unlock(held, LogsLock)
    /\ Goto(FrontEnd, "spawn")
    /\ UNCHANGED << pure, data, cleaner >>

\* The rest of run_process: the new cleaner with its own statistics and
\* callback mutexes, and thread::spawn. The frame goes on to the panels.
ThreadSpawn ==
    /\ At(FrontEnd, "spawn")
    /\ cleaner' = cleaner + 1
    /\ pc' = [pc EXCEPT ![FrontEnd] = "stats_wait", ![cleaner + 1] = "run"]
    /\ UNCHANGED << pure, data, held >>

\* cleaner.get_stats_sync(): self.stats.lock().unwrap()
SnapshotAcquire ==
    /\ At(FrontEnd, "stats_wait") /\ held[StatsLock(cleaner)] = Free
    /\ held' = lock(held, StatsLock(cleaner), FrontEnd)
    /\ Goto(FrontEnd, "cloning")
    /\ UNCHANGED << pure, data, cleaner >>

\* .clone(); the guard is a temporary of the statement.
SnapshotRelease ==
    /\ At(FrontEnd, "cloning")
    /\ held' = unlock(held, StatsLock(cleaner))
    /\ Goto(FrontEnd, "read_wait")
    /\ UNCHANGED << pure, data, cleaner >>

\* The log panel: if let Ok(logs) = self.logs.lock()
ReadAcquire ==
    /\ At(FrontEnd, "read_wait") /\ held[LogsLock] = Free
    /\ held' = lock(held, LogsLock, FrontEnd)
    /\ Goto(FrontEnd, "reading")
    /\ UNCHANGED << pure, data, cleaner >>

\* The labels are drawn; the guard ends with the if-let, the frame with it.
ReadRelease ==
    /\ At(FrontEnd, "reading")
    /\ held' = unlock(held, LogsLock)
    /\ Goto(FrontEnd, "frame")
    /\ UNCHANGED << pure, data, cleaner >>

FrontEndStep ==
    \/ ClickRun
    \/ NoClick
    \/ ClearAcquire
    \/ ClearRelease
    \/ ThreadSpawn
    \/ SnapshotAcquire
    \/ SnapshotRelease
    \/ ReadAcquire
    \/ ReadRelease

\* The worker calls SystemCleaner::log.
LogEnter(r) ==
    /\ At(r, "run")
    /\ Goto(r, "callback_wait")
    /\ UNCHANGED << pure, data, cleaner, held >>

\* if let Ok(cb) = callback.lock()
CallbackAcquire(r) ==
    /\ At(r, "callback_wait") /\ held[CallbackLock(r)] = Free
    /\ held' = lock(held, CallbackLock(r), r)
    /\ Goto(r, "logs_wait")
    /\ UNCHANGED << pure, data, cleaner >>

\* Inside the callback: if let Ok(mut logs) = logs.lock()
PushAcquire(r) ==
    /\ At(r, "logs_wait") /\ held[LogsLock] = Free
    /\ held' = lock(held, LogsLock, r)
    /\ Goto(r, "pushing")
    /\ UNCHANGED << pure, data, cleaner >>

\* logs.push(msg); the guard ends with the if-let.
PushRelease(r) ==
    /\ At(r, "pushing")
    /\ held' = unlock(held, LogsLock)
    /\ Goto(r, "repaint")
    /\ UNCHANGED << pure, data, cleaner >>

\* ctx_clone.request_repaint(), the callback returns and its guard ends.
\* After a "Deleted:" line the statistics come next.
CallbackRelease(r) ==
    /\ At(r, "repaint")
    /\ held' = unlock(held, CallbackLock(r))
    /\ \E next \in {"run", "stats_wait"} : Goto(r, next)
    /\ UNCHANGED << pure, data, cleaner >>

\* if let Ok(mut stats) = self.stats.lock()
AddFileAcquire(r) ==
    /\ At(r, "stats_wait") /\ held[StatsLock(r)] = Free
    /\ held' = lock(held, StatsLock(r), r)
    /\ Goto(r, "adding")
    /\ UNCHANGED << pure, data, cleaner >>

\* stats.add_file(size); the guard ends with the if-let.
AddFileRelease(r) ==
    /\ At(r, "adding")
    /\ held' = unlock(held, StatsLock(r))
    /\ Goto(r, "run")
    /\ UNCHANGED << pure, data, cleaner >>

\* The loop over the items ends: done_signal.store(true), the thread ends.
WorkerReturn(r) ==
    /\ At(r, "run")
    /\ Goto(r, "done")
    /\ UNCHANGED << pure, data, cleaner, held >>

WorkerLockStep(r) ==
    \/ LogEnter(r)
    \/ CallbackAcquire(r)
    \/ PushAcquire(r)
    \/ PushRelease(r)
    \/ CallbackRelease(r)
    \/ AddFileAcquire(r)
    \/ AddFileRelease(r)
    \/ WorkerReturn(r)

ThreadStep(t) == IF t = FrontEnd THEN FrontEndStep ELSE WorkerLockStep(t)

InitLocks == Default({{}}, {{}}) /\ NoPureCall

NextLocks == FrontEndStep \/ \E r \in Runs : WorkerLockStep(r)

SpecLocks == InitLocks /\ [][NextLocks]_vars

\* ===================================================== the properties
\* What the worker of run r has logged, in order.
Emitted(r) ==
    LET logged == SelectSeq(trace[r], LAMBDA e : e.kind = "log")
    IN  [i \in 1..Len(logged) |-> logged[i].line]

\* The sizes the worker of run r has added to its statistics, in order.
Counted(r) ==
    LET added == SelectSeq(trace[r], LAMBDA e : e.kind = "stat")
    IN  [i \in 1..Len(added) |-> added[i].size]

FailuresIn(t) == SelectSeq(t, LAMBDA e : e.kind = "failed")

Failures(r) == FailuresIn(trace[r])

RECURSIVE Sum(_, _)
Sum(q, n) == IF n = 0 THEN 0 ELSE q[n] + Sum(q, n - 1)

Finished(r) == worker[r].at = "done"

\* Every operation of run r has been dispatched and has returned.
OpsFinished(r) ==
    /\ worker[r].at \in {"idle", "done"}
    /\ worker[r].prog = << >>
    /\ worker[r].op = Len(worker[r].items)

\* C1: a step of a Dry-run worker removes no file and spawns no process,
\* and as long as a Dry-run run is the latest one the filesystem and the
\* processes spawned are those of its start.
C1_DryRunTouchesNothing ==
    /\ [][\A r \in Runs :
            (dry_run[r] /\ worker'[r] # worker[r]) => (fs' = fs /\ spawned' = spawned)]_vars
    /\ [](cleaner # 0 /\ dry_run[cleaner]
            => fs = start[cleaner].fs /\ Len(spawned) = start[cleaner].spawned)

\* A preview of two files and a tool has ended: both files are still there.
C1_Witness ==
    \E r \in Runs :
        /\ Finished(r) /\ dry_run[r] /\ cleaner = r
        /\ stats[r].files_deleted >= 2
        /\ tools # {}
        /\ fs = start[r].fs /\ spawned = << >>

\* C2: a Dry-run run and a Live run of the same ids, started on the same
\* filesystem, the Live run removing every file it tries to, end with the
\* same log lines and the same statistics.
C2_DryRunEqualsLive ==
    \A d \in Runs, l \in Runs :
        ( /\ Finished(d) /\ Finished(l)
          /\ dry_run[d] /\ ~dry_run[l]
          /\ worker[d].items = worker[l].items
          /\ start[d].fs = start[l].fs
          /\ Failures(l) = << >> )
        => (Emitted(d) = Emitted(l) /\ stats[d] = stats[l])

\* C3: a Dry-run run of trash and vim on Trash/file1 (10 bytes) and
\* .vim/session.swp (5 bytes) ends with 2 files, 15 bytes, 0 directories,
\* both files still there.
C3_EndToEnd ==
    \A r \in Runs :
        ( /\ Finished(r) /\ dry_run[r]
          /\ worker[r].items = << "trash", "vim" >>
          /\ start[r].fs = {1, 4} )
        => /\ stats[r] = [files_deleted |-> 2, bytes_freed |-> 15, directories_cleaned |-> 0]
           /\ {1, 4} \subseteq fs

\* C4: at most one worker is executing.
C4_SingleRunAtATime == Cardinality({r \in Runs : Running(r)}) <= 1

\* C5: when the front end has seen the flag and shows Completed, the
\* operations of the current run have all finished.
C5_CompletedMeansFinished ==
    status_text = "Operation Completed." => OpsFinished(cleaner)

\* Position of an id in the catalog (0 for an id that is not in it).
Pos(id) ==
    IF id \in CatalogSet THEN CHOOSE i \in 1..Len(CatalogIds) : CatalogIds[i] = id ELSE 0

\* The fixed texts an operation logs.
TextsOf(prog) == {prog[i].text : i \in {j \in 1..Len(prog) : prog[j].op = "log"}}

\* C6: the ids of a run are in declaration order, and what its worker did
\* is ordered by operation: nothing of operation i comes after something of
\* operation i+1, and every fixed line is one of the operation it is
\* recorded for.
C6_OperationsInOrder ==
    \A r \in Runs :
        LET w == worker[r] IN
        /\ \A i \in 1..Len(w.items), j \in 1..Len(w.items) :
              i < j => Pos(w.items[i]) < Pos(w.items[j])
        /\ w.at # "unborn" => w.items = SelectSeq(CatalogIds, LAMBDA id : id \in Range(w.items))
        /\ \A i \in 1..Len(trace[r]), j \in 1..Len(trace[r]) :
              i < j => trace[r][i].op <= trace[r][j].op
        /\ \A i \in 1..Len(trace[r]) :
              LET e == trace[r][i] IN
              /\ e.op \in 1..w.op
              /\ (e.kind = "log" /\ e.line.name = << >>)
                    => e.line.text \in TextsOf(match_item(w.items[e.op], dry_run[r], tools, dirs))

\* Two operations of one run have each logged and counted.
C6_Witness ==
    \E r \in Runs :
        /\ Finished(r)
        /\ worker[r].items = << "trash", "vim" >>
        /\ \E i \in 1..Len(trace[r]), j \in 1..Len(trace[r]) :
              /\ trace[r][i].op = 1 /\ trace[r][i].kind = "stat"
              /\ trace[r][j].op = 2 /\ trace[r][j].kind = "stat"

\* C7: in every snapshot the byte total is the sum of the sizes of exactly
\* the files counted, those the run recorded first.
C7_SnapshotNeverTorn ==
    snapshot.run # 0 =>
        /\ snapshot.files_deleted <= Len(Counted(snapshot.run))
        /\ snapshot.bytes_freed = Sum(Counted(snapshot.run), snapshot.files_deleted)

\* A snapshot was taken between two additions of a running worker.
C7_Witness ==
    /\ snapshot.run # 0
    /\ Running(snapshot.run)
    /\ snapshot.files_deleted >= 1
    /\ stats[snapshot.run].files_deleted > snapshot.files_deleted

AtLeast(a, b) ==
    /\ a.files_deleted >= b.files_deleted
    /\ a.bytes_freed >= b.bytes_freed
    /\ a.directories_cleaned >= b.directories_cleaned

\* C8: what the accessor of the current run returns is zero when the run
\* starts and never goes down within the run, from snapshot to snapshot.
C8_StatsFromZeroUpwards ==
    [][ /\ cleaner' # cleaner
            => clone(stats', cleaner') =
                 [run |-> cleaner', files_deleted |-> 0, bytes_freed |-> 0,
                  directories_cleaned |-> 0]
        /\ (cleaner' = cleaner /\ cleaner # 0)
            => AtLeast(clone(stats', cleaner), clone(stats, cleaner))
        /\ (snapshot' # snapshot /\ snapshot'.run = snapshot.run)
            => AtLeast(snapshot', snapshot) ]_vars

\* A second run has started after a first one that counted files, and a
\* snapshot of it has been taken after one of the first.
C8_Witness ==
    /\ cleaner = 2
    /\ stats[1].files_deleted >= 1
    /\ snapshot.run = 2
    /\ snapshot.files_deleted >= 1

\* C9: a failed removal logs nothing and counts nothing, and the worker goes
\* on with the loop it is in: the files and steps left are those that were
\* left; and a worker ends only with every operation dispatched.
C9_FailedRemovalSkipped ==
    /\ [][\A r \in Runs :
            Len(FailuresIn(trace'[r])) > Len(FailuresIn(trace[r])) =>
                /\ logs' = logs
                /\ stats' = stats
                /\ worker'[r].at = worker[r].at
                /\ worker'[r].at \in {"dir_loop", "pat_loop"}
                /\ worker'[r].prog = worker[r].prog
                /\ worker'[r].op = worker[r].op
                /\ worker[r].at = "dir_loop" => worker'[r].todo = Tail(worker[r].todo)]_vars
    /\ [](\A r \in Runs : Finished(r) => OpsFinished(r))

\* A Live run of trash and flatpak has ended in which the removal of the
\* Trash file failed and flatpak logged after it, and in which the first
\* removal of the flatpak purge failed and its second file was counted.
C9_Witness ==
    \E r \in Runs :
        /\ Finished(r) /\ ~dry_run[r]
        /\ worker[r].items = << "trash", "flatpak" >>
        /\ \E i \in 1..Len(trace[r]), k \in 1..Len(trace[r]) :
              /\ i < k
              /\ trace[r][i].kind = "failed" /\ trace[r][i].op = 1
              /\ trace[r][k].kind = "log" /\ trace[r][k].op = 2
        /\ \E i \in 1..Len(trace[r]), j \in 1..Len(trace[r]) :
              /\ i < j
              /\ trace[r][i].kind = "failed" /\ trace[r][i].op = 2
              /\ trace[r][j].kind = "stat" /\ trace[r][j].op = 2

\* C10: dispatching an id of no operation changes nothing but the worker's
\* place in its list, nothing is ever recorded for such an id, and the
\* worker ends with every id dispatched.
C10_UnknownIdIgnored ==
    /\ [][\A r \in Runs :
            ( /\ worker'[r].op = worker[r].op + 1
              /\ worker[r].items[worker'[r].op] \notin KnownIds )
            => /\ worker'[r] = [worker[r] EXCEPT !.op = @ + 1]
               /\ worker'[r].prog = << >>
               /\ stats' = stats /\ logs' = logs /\ fs' = fs /\ spawned' = spawned
               /\ trace' = trace /\ done_signal' = done_signal]_vars
    /\ [](\A r \in Runs :
            /\ \A i \in 1..Len(trace[r]) : worker[r].items[trace[r][i].op] \in KnownIds
            /\ Finished(r) => OpsFinished(r))

\* A run has ended whose list held an unknown id before a purge that counted.
C10_Witness ==
    \E r \in Runs :
        /\ Finished(r) /\ done_signal
        /\ worker[r].items = << UnknownId, "trash" >>
        /\ \E i \in 1..Len(trace[r]) : trace[r][i].op = 2 /\ trace[r][i].kind = "stat"

\* The "Deleted: ..." lines among the given ones.
DeletedLines(lines) == SelectSeq(lines, LAMBDA l : l.text = "Deleted: ")

\* C11: a Live run that follows a finished Live run of the same ids in which
\* no removal failed counts no file and no byte and logs no "Deleted:" line,
\* at any moment of it.
C11_SecondLiveRunAddsNothing ==
    \A a \in Runs, b \in Runs :
        ( /\ a < b
          /\ worker[b].at # "unborn"
          /\ ~dry_run[a] /\ ~dry_run[b]
          /\ worker[a].items = worker[b].items
          /\ Failures(a) = << >> )
        => /\ stats[b].files_deleted = 0
           /\ stats[b].bytes_freed = 0
           /\ DeletedLines(Emitted(b)) = << >>
           /\ Failures(b) = << >>

\* A Live run of a directory purge and a pattern purge removed three files,
\* and a second Live run of the same ids has ended.
C11_Witness ==
    /\ Finished(1) /\ Finished(2)
    /\ ~dry_run[1] /\ ~dry_run[2]
    /\ worker[1].items = << "trash", "vim" >>
    /\ worker[2].items = worker[1].items
    /\ stats[1].files_deleted = 3
    /\ Len(DeletedLines(Emitted(1))) = 3
    /\ stats[2].files_deleted = 0

\* C12: the worker of every started run gets to the end of its loop and
\* sets the completion flag, whichever removals and invocations fail.
C12_EveryRunCompletes ==
    /\ \A r \in Runs : (worker[r].at # "unborn") ~> Finished(r)
    /\ [][\A r \in Runs :
            (worker'[r].at = "done" /\ worker[r].at # "done") => done_signal']_vars

\* A Live run has ended with the flag set in which every removal failed.
C12_Witness ==
    \E r \in Runs :
        /\ Finished(r) /\ ~dry_run[r] /\ done_signal
        /\ Len(Failures(r)) >= 2
        /\ stats[r].files_deleted = 0

\* C13: pressing Abort changes the front end's flag and status text and
\* nothing else (no worker, statistics, log line, flag or file), and a
\* worker running when the abort is shown goes on to dispatch every id left
\* and to set the completion flag.
C13_AbortStopsNothing ==
    /\ [][(status_text' = "Aborted by user." /\ status_text # "Aborted by user.")
            => /\ ~is_processing'
               /\ UNCHANGED << worker, stats, logs, done_signal, fs, spawned, cleaner,
                               dry_run, trace >>]_vars
    /\ \A r \in Runs :
            (status_text = "Aborted by user." /\ Running(r))
                ~> (Finished(r) /\ OpsFinished(r))
    /\ [][\A r \in Runs :
            (worker'[r].at = "done" /\ worker[r].at # "done")
                => (done_signal' /\ OpsFinished(r)')]_vars

\* A run was aborted before it had counted a file; its worker has since
\* logged, counted and set the flag, and the front end still shows the abort.
C13_Witness ==
    /\ cleaner # 0
    /\ status_text = "Aborted by user." /\ ~is_processing
    /\ start[cleaner].aborted = 0
    /\ Finished(cleaner) /\ done_signal
    /\ stats[cleaner].files_deleted >= 1
    /\ logs # << >>

ToolIds == {"clipboard", "apt", "dnf", "flatpak"}

ToolOf(id) ==
    CASE id = "clipboard" -> "xclip"
      [] id = "apt"       -> "apt-get"
      [] id = "dnf"       -> "dnf"
      [] id = "flatpak"   -> "flatpak"

\* What the worker of run r has recorded for its i-th operation.
EventsOf(r, i) == SelectSeq(trace[r], LAMBDA e : e.op = i)

ArgvsOf(r, i) ==
    LET sp == SelectSeq(EventsOf(r, i), LAMBDA e : e.kind = "spawn")
    IN  [k \in 1..Len(sp) |-> sp[k].argv]

\* The fixed lines (not "Deleted: ...") recorded for the i-th operation.
FixedLinesOf(r, i) ==
    SelectSeq(EventsOf(r, i), LAMBDA e : e.kind = "log" /\ e.line.text # "Deleted: ")

\* The i-th id of run r names a tool operation whose tool is / is not there.
ToolOp(r, i, present) ==
    /\ i \in 1..Len(worker[r].items)
    /\ worker[r].items[i] \in ToolIds
    /\ (ToolOf(worker[r].items[i]) \in tools) = present

\* C15: of a tool operation whose tool is not on the search path nothing is
\* ever recorded (no line, no count, no removal tried, no process), in
\* either mode; the worker has no step of it to take, no process of that
\* tool is ever spawned, and flatpak's files under ~/.var/app stay.
C15_AbsentToolIsNoOp ==
    \A r \in Runs :
        /\ \A i \in 1..Len(worker[r].items) :
              ToolOp(r, i, FALSE) =>
                /\ EventsOf(r, i) = << >>
                /\ worker[r].op = i =>
                        (worker[r].at \in {"idle", "done"} /\ worker[r].prog = << >>)
        /\ \A k \in 1..Len(spawned) : spawned[k][1] \in tools
        /\ (r = 1 /\ worker[r].items # << >>
                /\ \A i \in 1..Len(worker[r].items) : ToolOp(r, i, FALSE))
              => (fs = start[r].fs /\ logs = << >> /\ stats[r] = CleaningStats_new)

\* A Live run of flatpak and apt has ended with neither tool there: both
\* files under ~/.var/app are left, nothing was logged, counted or spawned.
C15_Witness ==
    /\ Finished(1) /\ ~dry_run[1]
    /\ worker[1].items = << "flatpak", "apt" >>
    /\ tools = {}
    /\ {2, 3} \subseteq fs
    /\ trace[1] = << >> /\ logs = << >> /\ spawned = << >>
    /\ stats[1] = CleaningStats_new

\* C16: a finished Dry-run run has spawned no process, and for each of its
\* tool operations whose tool is there it has logged exactly one fixed line,
\* the one of the invocation.
C16_DryRunToolLogsOnly ==
    \A r \in Runs :
        (Finished(r) /\ dry_run[r]) =>
            \A i \in 1..Len(worker[r].items) :
                ToolOp(r, i, TRUE) =>
                    /\ ArgvsOf(r, i) = << >>
                    /\ Len(FixedLinesOf(r, i)) = 1

\* The invocations of apt and of dnf, in order.
TwoSteps(id) ==
    IF id = "apt"
    THEN << <<"apt-get", "autoremove", "-y">>, <<"apt-get", "clean">> >>
    ELSE << <<"dnf", "autoremove", "-y">>, <<"dnf", "clean", "all">> >>

\* C17: in a Live run, the invocations recorded for an apt or dnf operation
\* whose tool is there are at any moment the first ones of (autoremove,
\* clean), and both once the worker has gone past the operation, however
\* each went; and the worker ends only with every id dispatched.
C17_TwoInvocationsInOrder ==
    \A r \in Runs :
        /\ \A i \in 1..Len(worker[r].items) :
              ( /\ ~dry_run[r] /\ ToolOp(r, i, TRUE)
                /\ worker[r].items[i] \in {"apt", "dnf"} )
              => /\ IsPrefix(ArgvsOf(r, i), TwoSteps(worker[r].items[i]))
                 /\ (worker[r].op > i \/ Finished(r))
                        => ArgvsOf(r, i) = TwoSteps(worker[r].items[i])
        /\ Finished(r) => OpsFinished(r)

\* A Live run of apt and dnf has ended: apt's autoremove could not be
\* started and its clean exited non-zero, and dnf ran both of its steps
\* after that.
C17_Witness ==
    /\ Finished(1) /\ ~dry_run[1] /\ done_signal
    /\ worker[1].items = << "apt", "dnf" >>
    /\ Len(EventsOf(1, 1)) = 3
    /\ EventsOf(1, 1)[2].status = "spawn_failed"
    /\ EventsOf(1, 1)[3].status = "exit_nonzero"
    /\ Len(ArgvsOf(1, 2)) = 2
    /\ Len(spawned) = 4

\* What the matching rule says, by the shape of the pattern.
Leading(q) == Len(q) >= 1 /\ q[1] = "*"

Trailing(q) == Len(q) >= 1 /\ q[Len(q)] = "*"

ShapeMatch(name, q) ==
    IF Len(q) >= 2 /\ Leading(q) /\ Trailing(q)
    THEN \E a \in 0..Len(name), b \in 0..Len(name) :
            /\ a + b + (Len(q) - 2) = Len(name)
            /\ \A k \in 1..(Len(q) - 2) : name[a + k] = q[k + 1]
    ELSE IF Leading(q)
    THEN /\ Len(name) >= Len(q) - 1
         /\ \A k \in 1..(Len(q) - 1) : name[Len(name) - (Len(q) - 1) + k] = q[k + 1]
    ELSE IF Trailing(q)
    THEN /\ Len(name) >= Len(q) - 1
         /\ \A k \in 1..(Len(q) - 1) : name[k] = q[k]
    ELSE name = q

RECURSIVE Scale(_)
Scale(k) == IF k = 0 THEN 1 ELSE 1024 * Scale(k - 1)

\* C19: format_bytes of n takes the unit with index min(4, times n can be
\* divided by 1024 staying >= 1), with two decimals (0..99) that are, for
\* n below 1024 KB, n in that unit to the nearest hundredth; 0 is
\* "0.00 B", 1536 "1.50 KB", 2^40 "1.00 TB", and 1024 TB and more are in TB.
C19_FormatBytes ==
    (call.fn = "format_bytes" /\ ret.done) =>
        LET n    == call.bytes
            t    == ret.text
            divs == IF n = << >> THEN 0 ELSE Len(n) - 1
            k    == IF divs < 4 THEN divs ELSE 4
        IN  /\ t[3] = <<"B", "KB", "MB", "GB", "TB">>[k + 1]
            /\ t[2] \in 0..99
            /\ t[1] >= 0
            /\ Len(n) <= 2 =>
                  LET d == 2 * ((100 * t[1] + t[2]) * Scale(k) - 100 * Value(n))
                  IN  d <= Scale(k) /\ -d <= Scale(k)
            /\ n = << >> => t = <<0, 0, "B">>
            /\ n = <<1, 512>> => t = <<1, 50, "KB">>
            /\ n = <<1, 0, 0, 0, 0>> => t = <<1, 0, "TB">>
            /\ Len(n) >= 6 => (t[3] = "TB" /\ t[1] >= 1024)

\* format_bytes has returned for a count of 1024 TB or more.
C19_Witness ==
    /\ call.fn = "format_bytes" /\ ret.done
    /\ Len(call.bytes) = 6
    /\ call.bytes[2] = 512
    /\ ret.text[3] = "TB"
    /\ ret.text[1] >= 1024

\* The files of a pattern purge's subtree that its walk has not come to yet.
Unvisited(w, present) ==
    {f \in present : f > w.cursor /\ IsPrefix(Head(w.prog).root, Files[f].dir)}

\* C20: when a pattern purge makes a removal, its walk has come to the end
\* of the subtree: no file of the subtree is still to be visited.
C20_CollectBeforeRemove ==
    [][\A r \in Runs :
        ( /\ worker[r].at = "pat_loop"
          /\ worker'[r].at \in {"log_deleted", "pat_loop"}
          /\ worker'[r].cursor # worker[r].cursor )
        => Unvisited(worker'[r], fs) = {}]_vars

\* The worker of run r is inside a directory purge: in its delete loop, or
\* logging or counting a removal of that loop.
InDirPurge(r) ==
    \/ worker[r].at = "dir_loop"
    \/ worker[r].at \in {"log_deleted", "add_file"} /\ worker[r].ret = "dir_loop"

PurgeRoot(r) == Head(worker[r].prog).root

\* C21: a directory purge deletes files only and never its root: while a
\* purge is under way and when it returns its root exists, and a step of the
\* purge removes at most one file and no directory, whether the removal
\* succeeds or fails.
C21_PurgeKeepsRoot ==
    /\ [](\A r \in Runs : InDirPurge(r) => exists(PurgeRoot(r), dirs))
    /\ [][\A r \in Runs :
            (InDirPurge(r) /\ worker'[r] # worker[r])
            => /\ dirs' = dirs
               /\ fs' \subseteq fs
               /\ Cardinality(fs \ fs') <= 1
               /\ exists(PurgeRoot(r), dirs')]_vars

\* A Live purge of ~/.var/app has returned: one removal succeeded, the
\* other failed, and the root is there.
C21_Witness ==
    /\ Finished(1) /\ ~dry_run[1]
    /\ worker[1].items = << "flatpak" >>
    /\ start[1].fs = {2, 3} /\ fs = {3}
    /\ Len(Failures(1)) = 1
    /\ stats[1].files_deleted = 1
    /\ exists(Home(<<".var", "app">>), dirs)

\* C25: no operation removes a directory or counts one: in every state the
\* directory counter of every run is 0 and every directory there was when
\* the run started is there.
C25_NoDirectoryRemoved ==
    \A r \in Runs :
        /\ stats[r].directories_cleaned = 0
        /\ worker[r].at # "unborn" => start[r].dirs \subseteq dirs

\* A Live run has purged the cache2 directory and ~/.var/app and removed
\* every file: the emptied subdirectory, cache2 and __pycache__ are there.
C25_Witness ==
    /\ Finished(1) /\ ~dry_run[1]
    /\ worker[1].items = << "firefox_cache", "flatpak" >>
    /\ start[1].fs = {2, 3} /\ fs = {}
    /\ stats[1].files_deleted = 2
    /\ exists(Home(<<".var", "app", "org.app">>), dirs)
    /\ exists(Home(<<".mozilla", "firefox", "p.default", "cache2">>), dirs)
    /\ exists(Home(<<"proj", "__pycache__">>), dirs)

\* The "Deleted:" lines run r has emitted.
DeletedEmitted(r) == Len(DeletedLines(Emitted(r)))

\* The order of logging and counting alone: with L the "Deleted:" lines run r
\* has emitted and F the files it has counted, F <= L <= F + 1, and L = F
\* once the worker of r has returned.
LoggedThenCounted(r) ==
    /\ stats[r].files_deleted <= DeletedEmitted(r)
    /\ DeletedEmitted(r) <= stats[r].files_deleted + 1
    /\ Finished(r) => DeletedEmitted(r) = stats[r].files_deleted

\* C23: within a run a removal is logged first and counted next: F <= L <=
\* F + 1 in every state, and L = F for the current run in every state in
\* which the completion flag is set.
C23_LoggedThenCounted ==
    /\ \A r \in Runs : LoggedThenCounted(r)
    /\ (done_signal /\ cleaner # 0)
            => DeletedEmitted(cleaner) = stats[cleaner].files_deleted

\* C22: a run start leaves the log buffer empty; between two run starts the
\* buffer only grows at its end; and the buffer is, in order, what the
\* worker of the current run has emitted.
C22_LogOfCurrentRun ==
    /\ [][cleaner' # cleaner => logs' = << >>]_vars
    /\ [][cleaner' = cleaner => IsPrefix(logs, logs')]_vars
    /\ [](cleaner # 0 => logs = Emitted(cleaner))

\* The mutexes thread t holds.
HeldBy(t) == {l \in Locks : held[l] = t}

\* Thread t is at a lock() call.
Waiting(t) ==
    pc[t] \in {"clear_wait", "stats_wait", "read_wait", "callback_wait", "logs_wait"}

\* The mutex thread t is asking for.
Wanted(t) ==
    CASE pc[t] \in {"clear_wait", "read_wait", "logs_wait"} -> LogsLock
      [] pc[t] = "callback_wait" -> CallbackLock(t)
      [] pc[t] = "stats_wait" -> StatsLock(IF t = FrontEnd THEN cleaner ELSE t)

\* Thread t is at a lock() call that cannot return now.
Blocked(t) == Waiting(t) /\ ~ENABLED ThreadStep(t)

====
